---------------------------- MODULE Spec2Model ----------------------------
(***************************************************************************)
(* Model of the DBus-Python display client: the DisplayMode and            *)
(* DisplayConfig classes of src/dbustest.py and the MonitorsChanged        *)
(* handler of src/observer/__init__.py, run against the                    *)
(* org.gnome.Mutter.DisplayConfig service.                                 *)
(*                                                                         *)
(* The service is an external process.  Its serial protocol is modelled    *)
(* as the docstring of DisplayConfig.serial documents it: the serial is    *)
(* increased for every configuration change, and a configuration that is   *)
(* based on an old serial is detected and refused.                         *)
(*                                                                         *)
(* Python tuples are 0-indexed, TLA+ sequences 1-indexed: resources[0] of  *)
(* the source is resources[1] here.  Scales (D-Bus doubles) are written in *)
(* hundredths: 100 is 1.0, 200 is 2.0.  Python dicts ({}) used as property *)
(* maps are modelled by their key sets.                                    *)
(***************************************************************************)
EXTENDS Integers, Sequences, FiniteSets, TLC

\* ------------------------------------------------------------- bounds
\* The service's serial starts at 1 and stops growing at MaxSerial.
MaxSerial == 4
\* The longest monitor_list a caller passes to a mode builder.
MaxSel == 2

\* ---------------------------------------------------------- constants
VERIFY_METHOD == 0
TEMPORARY_METHOD == 1
PERSISTENT_METHOD == 2

\* ------------------------------------------------------ the hardware
Connectors == {"DP-1", "HDMI-1"}
ConnectorOrder == <<"DP-1", "HDMI-1">>

M1200 == "1920x1200@59.950172424316406"
M720 == "1280x720@60.0"
ModeIds == {M1200, M720}
ModeOrder == <<M1200, M720>>

ModeWidth(id) == IF id = M1200 THEN 1920 ELSE 1280
ModeHeight(id) == IF id = M1200 THEN 1200 ELSE 720
\* The preferred scale of a mode on a connector: the HDMI panel is HiDPI.
PreferredScale(c, id) == IF c = "HDMI-1" /\ id = M1200 THEN 200 ELSE 100

\* A hardware state: the modes each connector's monitor offers; no modes
\* means nothing is plugged in.
HwStates ==
    { [c \in Connectors |-> IF c = "DP-1" THEN {M1200, M720} ELSE {}],
      [c \in Connectors |-> {M1200}],
      [c \in Connectors |-> IF c = "HDMI-1" THEN {M1200} ELSE {}],
      [c \in Connectors |-> IF c = "DP-1" THEN {M720} ELSE {M1200, M720}] }

ConnectedSeq(h) == SelectSeq(ConnectorOrder, LAMBDA c : h[c] # {})

\* A logical monitor: <<x, y, scale, transform, primary, monitor_list>>,
\* each entry of monitor_list <<connector, mode_id, properties>>.
UsesMode(logical, c, id) ==
    \E i \in 1..Len(logical) : \E j \in 1..Len(logical[i][6]) :
        logical[i][6][j][1] = c /\ logical[i][6][j][2] = id

\* A mode record of GetCurrentState:
\* <<id, width, height, frequency, preferred scale, supported scales, props>>
ModeInfo(c, id, logical) ==
    << id, ModeWidth(id), ModeHeight(id),
       IF id = M1200 THEN "59.950172424316406" ELSE "60.0",
       PreferredScale(c, id), {100, 200},
       IF UsesMode(logical, c, id) THEN {"is-current"} ELSE {} >>

ModesSeq(h, c, logical) ==
    LET ids == SelectSeq(ModeOrder, LAMBDA m : m \in h[c])
    IN  [i \in 1..Len(ids) |-> ModeInfo(c, ids[i], logical)]

\* The monitors of GetCurrentState: <<monitor_info, modes, props>> each.
Monitors(h, logical) ==
    LET cs == ConnectedSeq(h)
    IN  [i \in 1..Len(cs) |->
            << <<cs[i], "vendor", "product", "serial">>,
               ModesSeq(h, cs[i], logical), {} >>]

FirstMode(h, c) == SelectSeq(ModeOrder, LAMBDA m : m \in h[c])[1]

\* The layouts the service or another client may choose for a hardware
\* state: every monitor side by side, or the first monitor alone.
FirstOnlyLayout(h) ==
    LET cs == ConnectedSeq(h)
    IN  << <<0, 0, PreferredScale(cs[1], FirstMode(h, cs[1])), 0, TRUE,
             << <<cs[1], FirstMode(h, cs[1]), {}>> >> >> >>

DefaultLayout(h) ==
    LET cs == ConnectedSeq(h)
    IN  IF Len(cs) = 1 THEN FirstOnlyLayout(h)
        ELSE FirstOnlyLayout(h) \o
             << <<ModeWidth(FirstMode(h, cs[1])), 0,
                  PreferredScale(cs[2], FirstMode(h, cs[2])), 0, FALSE,
                  << <<cs[2], FirstMode(h, cs[2]), {}>> >> >> >>

LayoutsFor(h) == {DefaultLayout(h), FirstOnlyLayout(h)}

\* Python's round(n / d) for d > 0: to the nearest integer, a tie to the
\* even one.
Round(n, d) ==
    LET q == n \div d
        r == n % d
    IN  IF 2 * r < d THEN q
        ELSE IF 2 * r > d THEN q + 1
        ELSE IF q % 2 = 0 THEN q ELSE q + 1

\* The width an entry <<connector, mode_id, props>> takes on screen at its
\* preferred scale: round(width / scale).
OnScreenWidth(entry) ==
    Round(ModeWidth(entry[2]) * 100, PreferredScale(entry[1], entry[2]))

RECURSIVE RunningSum(_, _)
\* The sum of the on-screen widths of the first n entries of monitor_list.
RunningSum(monitor_list, n) ==
    IF n = 0 THEN 0
    ELSE RunningSum(monitor_list, n - 1) + OnScreenWidth(monitor_list[n])

\* ---------------------------------------------------------- DisplayMode
DisplayMode_mode_id(mode_info) == mode_info[1]
DisplayMode_width(mode_info) == mode_info[2]
DisplayMode_height(mode_info) == mode_info[3]
DisplayMode_frequency(mode_info) == mode_info[4]
DisplayMode_scale(mode_info) == mode_info[5]
DisplayMode_supported_scale(mode_info) == mode_info[6]
DisplayMode_properties(mode_info) == mode_info[7]
DisplayMode_is_current(mode_info) ==
    "is-current" \in DisplayMode_properties(mode_info)

\* ------------------------------------------------------------- state
VARIABLES
    svcSerial,    \* the service's serial
    hw,           \* the hardware the service sees
    svcLogical,   \* the service's logical monitors (its configuration)
    signals,      \* MonitorsChanged signals not yet delivered, each
                  \* tagged with the serial of the change that emitted it
    held,         \* the DisplayConfig objects: display_config (module
                  \* level) and local (the handler's display_config)
    ctor,         \* a DisplayConfig.__init__ between its two reads
    hpc,          \* catchcall_signal_handler's position
    notified,     \* the tag of the signal the handler last received
    call,         \* the last method call: operation, arguments, outcome
    monitors,     \* the local list `monitors` the last method built
    input,        \* the arguments the caller passes to the mode builders
    applied       \* history: the objects whose serial the service has
                  \* accepted in an apply since they were constructed

vars == <<svcSerial, hw, svcLogical, signals, held, ctor, hpc, notified,
          call, monitors, input, applied>>

svcVars == <<svcSerial, hw, svcLogical, signals>>

Objects == {"display_config", "local"}

NoObj == [alive |-> FALSE, resources |-> <<>>, current_state |-> <<>>,
          config_serial |-> 0]
NoCtor == [target |-> "none", resources |-> <<>>, raced |-> FALSE]
NoCall == [op |-> "none", self |-> "none", args |-> <<>>, result |-> "none"]

\* The client is one thread: nothing else of it runs while a constructor
\* or the signal handler is running.
Idle == ctor.target = "none" /\ hpc = "idle"

\* ------------------------------------------------ the caller's inputs
Xs == {0, 1920}
Ys == {0, 1200}
Scales == {100, 200}
Transforms == {0, 1}
MonitorSpecs == {<<c, m, {}>> : c \in Connectors, m \in ModeIds}
MonitorLists ==
    UNION {[1..n -> MonitorSpecs] : n \in 1..MaxSel}

\* <<x_position, y_position, scale, transform, is_primary, monitor_list>>
Inputs == Xs \X Ys \X Scales \X Transforms \X BOOLEAN \X MonitorLists

NoInput == <<0, 0, 100, 0, TRUE, << <<"DP-1", M1200, {}>> >> >>

\* Nothing is constructed yet; the service is at its first serial.
Start ==
    /\ svcSerial = 1
    /\ hw \in HwStates
    /\ svcLogical = DefaultLayout(hw)
    /\ signals = <<>>
    /\ held = [o \in Objects |-> NoObj]
    /\ ctor = NoCtor
    /\ hpc = "idle"
    /\ notified = 0
    /\ call = NoCall
    /\ monitors = <<>>
    /\ applied = {}

Init == Start /\ input = NoInput

\* The mode builders are pure: their arguments are drawn up front.
PlanInit == Start /\ input \in Inputs

\* ------------------------------------------------------- the service
\* GetResources() -> (serial, crtcs, outputs, modes, max_w, max_h)
ServiceGetResources ==
    << svcSerial, <<>>, ConnectedSeq(hw),
       SelectSeq(ModeOrder, LAMBDA m : \E c \in Connectors : m \in hw[c]),
       8192, 8192 >>

\* GetCurrentState() -> (serial, monitors, logical_monitors, properties)
ServiceGetCurrentState ==
    << svcSerial, Monitors(hw, svcLogical), svcLogical, {} >>

\* A hotplug, or another client's configuration: the serial is increased
\* and MonitorsChanged is emitted.
ExternalChange ==
    /\ svcSerial < MaxSerial
    /\ \E h \in HwStates : \E l \in LayoutsFor(h) :
          /\ <<h, l>> # <<hw, svcLogical>>
          /\ hw' = h
          /\ svcLogical' = l
    /\ svcSerial' = svcSerial + 1
    /\ signals' = Append(signals, svcSerial + 1)
    /\ ctor' = IF ctor.target = "none" THEN ctor
               ELSE [ctor EXCEPT !.raced = TRUE]
    /\ UNCHANGED <<held, hpc, notified, call, monitors, input, applied>>

\* What the service accepts: every entry names a connected monitor and one
\* of its modes, and exactly one logical monitor is primary.
ValidConfig(logical) ==
    /\ Len(logical) >= 1
    /\ \A i \in 1..Len(logical) :
          /\ Len(logical[i][6]) >= 1
          /\ \A j \in 1..Len(logical[i][6]) :
                /\ logical[i][6][j][1] \in Connectors
                /\ logical[i][6][j][2] \in hw[logical[i][6][j][1]]
    /\ Cardinality({i \in 1..Len(logical) : logical[i][5]}) = 1

\* The outcome of ApplyMonitorsConfig(serial, method, logical, props).
ServiceVerdict(serial, method, logical) ==
    IF serial # svcSerial THEN "StaleSerial"
    ELSE IF ~ValidConfig(logical) THEN "InvalidConfig"
    ELSE "ok"

\* ApplyMonitorsConfig: a refused call and a Verify change nothing; an
\* accepted one installs the configuration, which is a configuration
\* change like any other.
ServiceApply(serial, method, logical) ==
    IF ServiceVerdict(serial, method, logical) = "ok" /\ method # VERIFY_METHOD
    THEN /\ svcSerial < MaxSerial
         /\ svcSerial' = svcSerial + 1
         /\ svcLogical' = logical
         /\ signals' = Append(signals, svcSerial + 1)
         /\ UNCHANGED hw
    ELSE UNCHANGED svcVars

\* ------------------------------------------------------ DisplayConfig
\* __init__, first read: self.resources = self.interface.GetResources()
GetResources(self) ==
    ctor' = [target |-> self, resources |-> ServiceGetResources,
             raced |-> FALSE]

\* display_config = DisplayConfig(): the constructor starts.
NewDisplayConfig ==
    /\ Idle
    /\ GetResources("display_config")
    /\ UNCHANGED <<svcVars, held, hpc, notified, call, monitors, input, applied>>

\* A constructor that takes its serial from the first read.
ConstructedObjectLegacySerial(res, state) ==
    [alive |-> TRUE, resources |-> res, current_state |-> state,
     config_serial |-> res[1]]

\* What the constructor leaves in the object: the resources of the first
\* read, the current state of the second, and
\* self.config_serial = self.current_state[0].
ConstructedObject(res, state) ==
    [alive |-> TRUE, resources |-> res, current_state |-> state,
     config_serial |-> state[1]]

\* __init__, second read: self.current_state = GetCurrentState().  The
\* constructor returns, and the name is bound to the new object.
GetCurrentState(self) ==
    /\ ctor.target = self
    /\ held' = [held EXCEPT
                   ![self] = ConstructedObject(ctor.resources,
                                               ServiceGetCurrentState)]
    /\ ctor' = NoCtor
    /\ hpc' = IF self = "local" THEN "print" ELSE hpc
    /\ applied' = applied \ {self}
    /\ UNCHANGED <<svcVars, notified, call, monitors, input>>

\* The serial property: self.resources[0]
serial(self) == held[self].resources[1]

\* available_modes(monitor): [str(mode[0]) for mode in monitor[1]]
available_modes(monitor) ==
    [i \in 1..Len(monitor[2]) |-> DisplayMode_mode_id(monitor[2][i])]

\* The list with the HDMI-1 entry of the source's comment enabled as a
\* second primary.
AppliedMonitorsTwoPrimary ==
    << <<0, 0, 100, 0, TRUE, << <<"DP-1", M1200, {}>> >> >>,
       <<1920, 0, 100, 0, TRUE, << <<"HDMI-1", M1200, {}>> >> >> >>

\* The list apply_monitors_config builds: one logical monitor at (0,0),
\* scale 1.0, transform 0, primary, holding DP-1 at 1920x1200.
AppliedMonitors ==
    << <<0, 0, 100, 0, TRUE, << <<"DP-1", M1200, {}>> >> >> >>

\* An apply that asks the service for its serial just before the call.
SubmittedSerialFresh(self) == svcSerial

\* An apply that passes the serial property, self.resources[0].
SubmittedSerialProperty(self) == serial(self)

\* The serial apply_monitors_config passes: self.config_serial
SubmittedSerial(self) == held[self].config_serial

\* The method apply_monitors_config passes: the literal 1
SubmittedMethod == 1

\* apply_monitors_config(): the service refuses the call by raising, and
\* nothing of the object is written either way.
apply_monitors_config(self) ==
    /\ Idle
    /\ held[self].alive
    /\ monitors' = AppliedMonitors
    /\ ServiceApply(SubmittedSerial(self), SubmittedMethod, AppliedMonitors)
    /\ call' = [op |-> "apply_monitors_config", self |-> self,
                args |-> <<SubmittedSerial(self), SubmittedMethod,
                           AppliedMonitors, {}>>,
                result |-> ServiceVerdict(SubmittedSerial(self),
                                          SubmittedMethod, AppliedMonitors)]
    /\ applied' = IF ServiceVerdict(SubmittedSerial(self), SubmittedMethod,
                                    AppliedMonitors) = "ok"
                   THEN applied \cup {self} ELSE applied
    /\ UNCHANGED <<held, ctor, hpc, notified, input>>

\* A single_mode that pins the placement to (0,0), primary, untransformed,
\* at the preferred scale of its first monitor.
SingleModePinned(x_position, y_position, scale, transform, is_primary, monitor_list) ==
    << <<0, 0, PreferredScale(monitor_list[1][1], monitor_list[1][2]), 0,
         TRUE, monitor_list>> >>

\* An extand_mode that lays the selection out left to right, one placement
\* per output at the running sum of the on-screen widths, the first primary.
ExtandModeRunningSum(x_position, y_position, scale, transform, is_primary, monitor_list) ==
    [i \in 1..Len(monitor_list) |->
        <<RunningSum(monitor_list, i - 1), 0,
          PreferredScale(monitor_list[i][1], monitor_list[i][2]), transform,
          i = 1, <<monitor_list[i]>> >>]

\* A clone_mode that gives every output the mode of the first one.
CloneModeCommonMode(x_position, y_position, scale, transform, is_primary, monitor_list) ==
    << <<x_position, y_position, scale, transform, is_primary,
         [i \in 1..Len(monitor_list) |->
             <<monitor_list[i][1], monitor_list[1][2], monitor_list[i][3]>>]
       >> >>

\* The list each mode builder builds from its arguments.
SingleModeMonitors(x_position, y_position, scale, transform, is_primary, monitor_list) ==
    << <<x_position, y_position, scale, transform, is_primary,
         monitor_list>> >>

ExtandModeMonitors(x_position, y_position, scale, transform, is_primary, monitor_list) ==
    << <<x_position, y_position, scale, transform, is_primary,
         monitor_list>> >>

CloneModeMonitors(x_position, y_position, scale, transform, is_primary, monitor_list) ==
    << <<x_position, y_position, scale, transform, is_primary,
         monitor_list>> >>

\* A mode builder binds its list to the local name `monitors` and falls off
\* its end: it returns None, submits nothing and writes nothing.
Builder(op, self, args, built) ==
    /\ Idle
    /\ held[self].alive
    /\ monitors' = built
    /\ call' = [op |-> op, self |-> self, args |-> args, result |-> "None"]
    /\ UNCHANGED <<svcVars, held, ctor, hpc, notified, input, applied>>

single_mode(self, x_position, y_position, scale, transform, is_primary, monitor_list) ==
    Builder("single_mode", self,
            <<x_position, y_position, scale, transform, is_primary,
              monitor_list>>,
            SingleModeMonitors(x_position, y_position, scale, transform,
                               is_primary, monitor_list))

extand_mode(self, x_position, y_position, scale, transform, is_primary, monitor_list) ==
    Builder("extand_mode", self,
            <<x_position, y_position, scale, transform, is_primary,
              monitor_list>>,
            ExtandModeMonitors(x_position, y_position, scale, transform,
                               is_primary, monitor_list))

clone_mode(self, x_position, y_position, scale, transform, is_primary, monitor_list) ==
    Builder("clone_mode", self,
            <<x_position, y_position, scale, transform, is_primary,
              monitor_list>>,
            CloneModeMonitors(x_position, y_position, scale, transform,
                              is_primary, monitor_list))

\* ------------------------------------------------------- the observer
\* A handler that declares `global display_config`.
HandlerTargetGlobal == "display_config"

\* catchcall_signal_handler: display_config = DisplayConfig() binds a name
\* local to the handler; the module's display_config is not assigned.
HandlerTarget == "local"

\* The main loop delivers one MonitorsChanged signal and the handler's
\* constructor makes its first read.
catchcall_signal_handler ==
    /\ Idle
    /\ signals # <<>>
    /\ signals' = Tail(signals)
    /\ notified' = Head(signals)
    /\ hpc' = "init"
    /\ GetResources(HandlerTarget)
    /\ UNCHANGED <<svcSerial, hw, svcLogical, held, call, monitors, input, applied>>

\* print(display_config.monitors_count) reads the handler's object and
\* nothing else (DisplayConfig as given defines no monitors_count, so the
\* read may raise instead of printing); either way the handler ends and its
\* object is gone.
HandlerReturn ==
    /\ hpc = "print"
    /\ hpc' = "idle"
    /\ held' = [held EXCEPT !["local"] = NoObj]
    /\ applied' = applied \ {"local"}
    /\ UNCHANGED <<svcVars, ctor, notified, call, monitors, input>>

\* ---------------------------------------------------- specifications
Next ==
    \/ ExternalChange
    \/ NewDisplayConfig
    \/ \E self \in Objects : GetCurrentState(self)
    \/ \E self \in Objects : apply_monitors_config(self)
    \/ catchcall_signal_handler
    \/ HandlerReturn

Spec == Init /\ [][Next]_vars

PlanNext ==
    \/ NewDisplayConfig
    \/ GetCurrentState("display_config")
    \/ apply_monitors_config("display_config")
    \/ single_mode("display_config", input[1], input[2], input[3],
                   input[4], input[5], input[6])
    \/ extand_mode("display_config", input[1], input[2], input[3],
                   input[4], input[5], input[6])
    \/ clone_mode("display_config", input[1], input[2], input[3],
                  input[4], input[5], input[6])

PlanSpec == PlanInit /\ [][PlanNext]_vars

\* ------------------------------------------------------------ claims
NPrimary(logical) == Cardinality({i \in 1..Len(logical) : logical[i][5]})

\* Every entry of every placement names a monitor of the current state and
\* one of that monitor's available modes.
InSnapshot(logical, state) ==
    \A i \in 1..Len(logical) : \A j \in 1..Len(logical[i][6]) :
        \E k \in 1..Len(state[2]) :
            /\ state[2][k][1][1] = logical[i][6][j][1]
            /\ \E n \in 1..Len(available_modes(state[2][k])) :
                  available_modes(state[2][k])[n] = logical[i][6][j][2]

\* C1: an apply_monitors_config on an object whose config_serial was read
\* before a later change of the service (so it is no longer the service's
\* serial) is refused with StaleSerial, and the refused call leaves the
\* service's serial, hardware, configuration and signals as they were.
C1_StaleApplyRefused ==
    [][\A self \in Objects :
          (apply_monitors_config(self) /\ held[self].config_serial # svcSerial)
          => (call'.result = "StaleSerial" /\ UNCHANGED svcVars)]_vars

\* C1 witness: an apply was refused as stale after a change.
C1_Witness ==
    /\ call.op = "apply_monitors_config"
    /\ call.result = "StaleSerial"
    /\ held[call.self].alive
    /\ call.args[1] = held[call.self].config_serial
    /\ call.args[1] < svcSerial

\* C2 as stated: a constructed object's legacy-listing serial equals its
\* current-state serial.
C2_SerialsAgree ==
    \A o \in Objects :
        held[o].alive => held[o].resources[1] = held[o].current_state[1]

\* C2 amended: the constructor returns right after its second read, whatever
\* the two serials are: the object keeps the resources of the first read
\* (nothing is read again), its current state and its config_serial are those
\* of the second read.
C2_TwoReadsNoRetry ==
    [][\A o \in Objects :
          (ctor.target = o /\ ctor'.target # o)
          => /\ held'[o].alive
             /\ held'[o].resources = ctor.resources
             /\ held'[o].current_state = ServiceGetCurrentState
             /\ held'[o].config_serial = svcSerial]_vars

\* C2 witness: a constructed object whose two reads disagree on the serial.
C2_Witness ==
    \E o \in Objects :
        held[o].alive /\ held[o].resources[1] # held[o].current_state[1]

\* C3 as stated: once the service has accepted an object's serial in a
\* Temporary or Persistent apply, no further apply is issued on that object
\* before it is constructed anew.
C3_NoApplyAfterApply ==
    [][\A self \in Objects :
          apply_monitors_config(self) => self \notin applied]_vars

\* C3 amended: a further apply on an object whose serial the service has
\* already accepted is possible; it submits the same config_serial and is
\* refused with StaleSerial, changing nothing at the service.  The method is
\* always Temporary, never Verify.
C3_SecondApplyRefused ==
    [][\A self \in Objects :
          apply_monitors_config(self)
          => /\ call'.args[1] = held[self].config_serial
             /\ call'.args[2] = TEMPORARY_METHOD
             /\ self \in applied
                => (call'.result = "StaleSerial" /\ UNCHANGED svcVars)]_vars

\* C3 witness: the second apply on one object, refused, with no change of
\* the service in between but the first apply itself.
C3_Witness ==
    /\ call.op = "apply_monitors_config"
    /\ call.result = "StaleSerial"
    /\ call.self \in applied
    /\ held[call.self].alive
    /\ svcSerial = held[call.self].config_serial + 1

\* C4 as stated: once a notification has been handled, no object held was
\* fetched before that notification.
C4_HeldDiscarded ==
    \A o \in Objects :
        (hpc = "idle" /\ held[o].alive) => held[o].config_serial >= notified

\* C4 amended: the handler fetches anew into an object of its own, both of
\* whose reads are no older than the notified change; that object is all the
\* handler uses and is gone when the handler returns.  The module's
\* display_config is left as it was: neither discarded nor replaced.
C4_HandlerFetchesLocal ==
    /\ [](hpc = "print"
            => /\ held["local"].alive
               /\ held["local"].resources[1] >= notified
               /\ held["local"].config_serial >= notified)
    /\ [](hpc = "idle" => ~held["local"].alive)
    /\ [][(hpc # "idle" \/ hpc' # "idle")
            => held'["display_config"] = held["display_config"]]_vars

\* C4 witness: the handler has run and the module's display_config still
\* holds what it fetched before the notification.
C4_Witness ==
    /\ hpc = "idle"
    /\ notified > 0
    /\ held["display_config"].alive
    /\ held["display_config"].config_serial < notified

\* C5 as stated: extand_mode over N outputs builds N placements, the i-th at
\* x = the sum of round(width / scale) of the earlier ones.
C5_ExtendRunningSum ==
    call.op = "extand_mode"
    => /\ Len(monitors) = Len(call.args[6])
       /\ \A i \in 1..Len(monitors) :
             monitors[i][1] = RunningSum(call.args[6], i - 1)

\* C5 amended: extand_mode builds one placement whatever N is: position,
\* scale, transform and primary flag are its arguments as passed, and the
\* whole selection, in order, is that placement's monitor list; it returns
\* None.
C5_ExtendOnePlacement ==
    call.op = "extand_mode"
    => /\ Len(monitors) = 1
       /\ monitors[1] = call.args
       /\ call.result = "None"

\* C5 witness: extand_mode over DP-1 then HDMI-1, both at 1920x1200.
C5_Witness ==
    /\ call.op = "extand_mode"
    /\ call.args[1] = 0
    /\ call.args[2] = 0
    /\ call.args[6] = << <<"DP-1", M1200, {}>>, <<"HDMI-1", M1200, {}>> >>

\* C6 as stated: single_mode over one output builds one placement at (0,0),
\* primary, untransformed, at the output's preferred scale, whatever the
\* arguments.
C6_SinglePinned ==
    (call.op = "single_mode" /\ Len(call.args[6]) = 1)
    => /\ Len(monitors) = 1
       /\ monitors[1][1] = 0
       /\ monitors[1][2] = 0
       /\ monitors[1][3] = PreferredScale(call.args[6][1][1],
                                          call.args[6][1][2])
       /\ monitors[1][4] = 0
       /\ monitors[1][5] = TRUE

\* C6 amended: single_mode over one output builds exactly one placement,
\* whose position, scale, transform and primary flag are the arguments as
\* passed.
C6_SingleAsPassed ==
    (call.op = "single_mode" /\ Len(call.args[6]) = 1)
    => /\ Len(monitors) = 1
       /\ \A k \in 1..6 : monitors[1][k] = call.args[k]

\* C6 witness: single_mode over one output, away from the origin and not
\* primary.
C6_Witness ==
    /\ call.op = "single_mode"
    /\ Len(call.args[6]) = 1
    /\ call.args[1] = 1920
    /\ call.args[5] = FALSE

C8_ExtendOnePrimary ==
    /\ NPrimary(monitors) <= 1
    /\ call.op = "extand_mode" => NPrimary(monitors) = 1

\* C8 amended: every list built or submitted has at most one primary
\* placement; the submitted list has exactly one; an extand_mode list has
\* one when its is_primary argument is true and none otherwise.
C8_AtMostOnePrimary ==
    /\ NPrimary(monitors) <= 1
    /\ call.op = "apply_monitors_config"
       => (NPrimary(call.args[3]) = 1 /\ call.args[3] = monitors)
    /\ call.op = "extand_mode"
       => NPrimary(monitors) = (IF call.args[5] THEN 1 ELSE 0)

\* C8 witness: an extand_mode list without a primary placement.
C8_Witness ==
    /\ call.op = "extand_mode"
    /\ Len(monitors) = 1
    /\ NPrimary(monitors) = 0

\* C9: every placement apply_monitors_config submits names only connectors
\* and mode ids of the current state of the object whose serial goes with it.
C9_SubmittedInSnapshot ==
    [][\A self \in Objects :
          apply_monitors_config(self)
          => InSnapshot(call'.args[3], held[self].current_state)]_vars

=============================================================================
